---- MODULE Spec2Model ----
(***************************************************************************)
(* io-adapter: the ReadAdapter / WriteAdapter traits (src/src/lib.rs) and  *)
(* their three implementations, for io::BufReader, io::BufWriter and       *)
(* serde_json::Serializer.                                                 *)
(*                                                                         *)
(* The trait methods delegate to the wrapped library types, so the model   *)
(* holds both the methods of lib.rs and the library calls they make        *)
(* (BufWriter::new / flush_buf / into_inner / write / drop, BufReader::new *)
(* / read / into_inner, Serializer::new / into_inner), each named Std...   *)
(* or Json... and translated from the behaviour of the call it stands for. *)
(*                                                                         *)
(* A stream is a record.  A readable source holds the bytes still to be    *)
(* read; a writable sink holds the bytes it has accepted and a script of   *)
(* its answers to the coming write calls.  Both count the calls made on    *)
(* them (ops), so that "performs no I/O" is a statement about the state.   *)
(* Ownership is modelled by slots: a move fills one slot and empties the   *)
(* slot it moved from.                                                     *)
(***************************************************************************)
EXTENDS Integers, Sequences, FiniteSets

VARIABLES
  ext,        \* the stream while external code (the caller) owns it, else None
  adapter,    \* the live adapter (it owns its inner stream), else None
  failed,     \* the IntoInnerError a failed try_into_inner returned, else None
  destroyed,  \* the stream as it was when it was destroyed, else None
  orig,       \* the stream as the caller created it (history)
  through,    \* bytes delivered to the caller (reader) / accepted from it (writer)
  ios,        \* number of read / write / flush / encode calls made on the adapter
  attempts,   \* number of failed try_into_inner calls so far
  before,     \* the adapter as it was when the last unwrap was called, else None
  last        \* the last operation and its outcome

vars == <<ext, adapter, failed, destroyed, orig, through, ios, attempts, before, last>>

----------------------------------------------------------------------------
(* Bounds *)

\* capacity of the adapters' buffers (DEFAULT_BUF_SIZE of the library, scaled down)
Capacity == 2
\* longest slice the caller passes to one write / encode, and largest read buffer
MaxChunk == 3
\* number of bytes in the longest readable source
MaxSrc == 4
\* number of I/O calls the caller makes on the adapter
MaxOps == 3
\* number of scripted answers of a sink
MaxScript == 2
\* number of failed try_into_inner calls the caller puts up with
MaxAttempts == 3

----------------------------------------------------------------------------
(* Values *)

None == [tag |-> "None"]

Min(a, b) == IF a < b THEN a ELSE b

\* s without its first n elements
DropN(s, n) == SubSeq(s, n + 1, Len(s))

\* the first n elements of s
TakeN(s, n) == SubSeq(s, 1, n)

\* the bytes numbered lo .. hi
Bytes(lo, hi) == [i \in 1..(hi - lo + 1) |-> lo + i - 1]

\* the answers a sink can give to one write call
Answers == {"Ok", "Part", "Zero", "Intr", "Err"}

Scripts == UNION {[1..n -> Answers] : n \in 0..MaxScript}

----------------------------------------------------------------------------
(* The underlying streams: any R: Read, any W: Write *)

\* A readable source: the bytes still to be read, whether every read fails,
\* and the number of calls made on it.
Source(rest, fail) == [tag |-> "Reader", rest |-> rest, fail |-> fail, ops |-> 0]

\* A writable sink: the bytes accepted so far, the answers to the coming write
\* calls, the answer once the script is used up, and the number of calls made.
Sink(data, script, tail) ==
  [tag |-> "Writer", data |-> data, script |-> script, tail |-> tail, ops |-> 0]

\* the states of a sink
SinkStates ==
  [tag : {"Writer"}, data : Seq(Nat), script : Seq(Answers), tail : {"Ok", "Err"}, ops : Nat]

\* R::read on a buffer of n bytes, the source handing out k of them
\* (a read may be short; it returns 0 bytes only at the end of the source).
SourceRead(s, n, k) ==
  IF s.fail
  THEN [inner |-> [s EXCEPT !.ops = @ + 1], ok |-> FALSE, bytes |-> <<>>]
  ELSE [inner |-> [s EXCEPT !.rest = DropN(@, k), !.ops = @ + 1],
        ok |-> TRUE, bytes |-> TakeN(s.rest, k)]

\* the k's a read of n bytes may return
ReadSizes(s, n) ==
  IF s.fail \/ s.rest = <<>> THEN {0} ELSE 1..Min(n, Len(s.rest))

\* W::write on a non-empty slice: res is Ok (n bytes taken), Intr
\* (ErrorKind::Interrupted) or Err (any other error).
SinkWrite(s, bytes) ==
  LET answer == IF s.script = <<>> THEN s.tail ELSE Head(s.script)
      t == [s EXCEPT !.script = IF @ = <<>> THEN @ ELSE Tail(@), !.ops = @ + 1]
  IN CASE answer = "Ok" ->
            [sink |-> [t EXCEPT !.data = @ \o bytes], res |-> "Ok", n |-> Len(bytes)]
       [] answer = "Part" ->
            [sink |-> [t EXCEPT !.data = Append(@, Head(bytes))], res |-> "Ok", n |-> 1]
       [] answer = "Zero" -> [sink |-> t, res |-> "Ok", n |-> 0]
       [] answer = "Intr" -> [sink |-> t, res |-> "Intr", n |-> 0]
       [] OTHER -> [sink |-> t, res |-> "Err", n |-> 0]

\* W::flush: the sinks of the model hold nothing back
SinkFlush(s) == [s EXCEPT !.ops = @ + 1]

\* Write the whole of pending, call after call: an interrupted call is
\* repeated, a call that takes nothing is the error WriteZero, any other error
\* ends the loop.  rest is what the sink has not taken.
WriteLoop[s \in SinkStates, pending \in Seq(Nat)] ==
  IF pending = <<>>
  THEN [inner |-> s, rest |-> <<>>, ok |-> TRUE, cause |-> "none"]
  ELSE LET r == SinkWrite(s, pending)
       IN CASE r.res = "Err" ->
                 [inner |-> r.sink, rest |-> pending, ok |-> FALSE, cause |-> "SinkErr"]
            [] r.res = "Intr" -> WriteLoop[r.sink, pending]
            [] r.n = 0 ->
                 [inner |-> r.sink, rest |-> pending, ok |-> FALSE, cause |-> "WriteZero"]
            [] OTHER -> WriteLoop[r.sink, DropN(pending, r.n)]

----------------------------------------------------------------------------
(* The library types the adapters are implemented for *)

\* io::BufReader::new: an empty buffer around the reader
StdBufReaderNew(reader) == [tag |-> "BufReader", inner |-> reader, buf |-> <<>>]

\* io::BufReader::into_inner: the reader; the buffer is dropped
StdBufReaderIntoInner(self) == self.inner

\* io::BufReader::read into a buffer of n bytes: with an empty buffer and
\* n >= capacity the read goes straight to the reader, else the buffer is
\* filled when empty and the caller gets what fits.
\* the caller gets the first m bytes of what the reader returned (r), the
\* buffer keeps the others
StdBufReaderFilled(self, r, m) ==
  [self |-> [self EXCEPT !.inner = r.inner, !.buf = DropN(r.bytes, m)],
   ok |-> r.ok, bytes |-> TakeN(r.bytes, m)]

StdBufReaderFill(self, r, n) == StdBufReaderFilled(self, r, Min(n, Len(r.bytes)))

\* the caller gets the first m bytes of the buffer
StdBufReaderTake(self, m) ==
  [self |-> [self EXCEPT !.buf = DropN(@, m)], ok |-> TRUE, bytes |-> TakeN(self.buf, m)]

StdBufReaderRead(self, n, k) ==
  IF self.buf = <<>> /\ n >= Capacity
  THEN StdBufReaderFill(self, SourceRead(self.inner, n, k), n)
  ELSE IF self.buf = <<>>
  THEN StdBufReaderFill(self, SourceRead(self.inner, Capacity, k), n)
  ELSE StdBufReaderTake(self, Min(n, Len(self.buf)))

\* the k's the reader may hand out in that read
StdBufReaderReadSizes(self, n) ==
  IF self.buf # <<>> THEN {0}
  ELSE ReadSizes(self.inner, IF n >= Capacity THEN n ELSE Capacity)

\* io::BufWriter::new: an empty buffer around the writer
StdBufWriterNew(writer) == [tag |-> "BufWriter", inner |-> writer, buf |-> <<>>]

\* io::BufWriter::flush_buf: write the buffer out; what the writer has taken
\* leaves the buffer, also when the flush fails
Flushed(self, f) ==
  [self |-> [self EXCEPT !.inner = f.inner, !.buf = f.rest], ok |-> f.ok, cause |-> f.cause]

FlushBuf(self) == Flushed(self, WriteLoop[self.inner, self.buf])

\* io::BufWriter::write: flush when the slice does not fit; a slice of at
\* least the capacity goes straight to the writer, a smaller one into the
\* buffer.  n is the number of bytes taken from the caller.
StdBufWriterDirect(self, r) ==
  [self |-> [self EXCEPT !.inner = r.sink], ok |-> r.res = "Ok", n |-> r.n]

StdBufWriterPut(self, bytes) ==
  IF Len(bytes) >= Capacity
  THEN StdBufWriterDirect(self, SinkWrite(self.inner, bytes))
  ELSE [self |-> [self EXCEPT !.buf = @ \o bytes], ok |-> TRUE, n |-> Len(bytes)]

StdBufWriterCold(f, bytes) ==
  IF f.ok THEN StdBufWriterPut(f.self, bytes) ELSE [self |-> f.self, ok |-> FALSE, n |-> 0]

StdBufWriterWrite(self, bytes) ==
  IF Len(self.buf) + Len(bytes) > Capacity
  THEN StdBufWriterCold(FlushBuf(self), bytes)
  ELSE StdBufWriterPut(self, bytes)

\* io::BufWriter::flush: flush_buf, then the writer's own flush
StdBufWriterFlushInner(f) ==
  IF f.ok THEN [f.self EXCEPT !.inner = SinkFlush(@)] ELSE f.self

StdBufWriterFlush(self) == StdBufWriterFlushInner(FlushBuf(self))

\* Drop for io::BufWriter: flush_buf with its error ignored, then the writer
\* is destroyed
StdBufWriterDrop(self) == FlushBuf(self).self.inner

\* a Result or the end of a call: Ok(value), Err(IntoInnerError(adp, cause)),
\* or a panic with its message and the stream as unwinding destroyed it
Ok(value) ==
  [tag |-> "Ok", value |-> value, cause |-> "none", adp |-> None,
   message |-> <<>>, unwound |-> None]

Err(adp, cause) ==
  [tag |-> "Err", value |-> None, cause |-> cause, adp |-> adp,
   message |-> <<>>, unwound |-> None]

Panic(message, unwound) ==
  [tag |-> "Panic", value |-> None, cause |-> "none", adp |-> None,
   message |-> message, unwound |-> unwound]

\* io::BufWriter::into_inner: flush_buf; the writer when it succeeds, else
\* the error with the BufWriter in it
StdBufWriterTake(f) == IF f.ok THEN Ok(f.self.inner) ELSE Err(f.self, f.cause)

StdBufWriterIntoInner(self) == StdBufWriterTake(FlushBuf(self))

\* serde_json::Serializer::new: nothing is encoded yet
JsonSerializerNew(writer) == [tag |-> "Serializer", inner |-> writer]

\* serde_json::Serializer::into_inner: the writer
JsonSerializerIntoInner(self) == self.inner

\* serializing a value: its encoding goes to the writer with write_all
JsonSerialized(self, bytes, f) ==
  [self |-> [self EXCEPT !.inner = f.inner], ok |-> f.ok, n |-> Len(bytes) - Len(f.rest)]

JsonSerialize(self, bytes) == JsonSerialized(self, bytes, WriteLoop[self.inner, bytes])

----------------------------------------------------------------------------
(* src/src/lib.rs: the implementations *)

\* Ok(r), r being the end of a call of into_inner: a panic goes on unwinding
OkOf(r) == IF r.tag = "Panic" THEN r ELSE Ok(r.value)

\* faulty variant: wrap reads ahead
BufReaderWrapEager(reader) ==
  StdBufReaderFilled(StdBufReaderNew(reader),
                     SourceRead(reader, Capacity, Min(Capacity, Len(reader.rest))), 0).self

\* impl ReadAdapter<R> for io::BufReader<R>
BufReaderWrap(reader) == StdBufReaderNew(reader)

\* faulty variant: into_inner hands the buffered bytes back to the reader
BufReaderIntoInnerUnread(self) == Ok([self.inner EXCEPT !.rest = self.buf \o @])

BufReaderIntoInner(self) == Ok(StdBufReaderIntoInner(self))

\* faulty variant: wrap flushes the writer
BufWriterWrapFlushing(writer) == StdBufWriterNew(SinkFlush(writer))

\* impl WriteAdapter<W> for io::BufWriter<W>
BufWriterWrap(writer) == StdBufWriterNew(writer)

\* the text of the panic's format string
PanicText == "Failed to unwrap BufWriter: "

\* the panic's message is the text and the Debug form of error.error(); the
\* error, and the BufWriter in it, are dropped as the panic unwinds
\* faulty variant: the error is swallowed and the writer taken out of it
BufWriterIntoInnerMatchLenient(r) == IF r.tag = "Ok" THEN Ok(r.value) ELSE Ok(r.adp.inner)

BufWriterIntoInnerMatch(r) ==
  IF r.tag = "Ok"
  THEN Ok(r.value)
  ELSE Panic(<<PanicText, r.cause>>, StdBufWriterDrop(r.adp))

\* faulty variant: into_inner takes the writer without flushing
BufWriterIntoInnerNoFlush(self) == Ok(self.inner)

BufWriterIntoInner(self) == BufWriterIntoInnerMatch(StdBufWriterIntoInner(self))

\* faulty variant: try_into_inner is not overridden: the default body
BufWriterTryIntoInnerDefault(self) == OkOf(BufWriterIntoInner(self))

\* faulty variant: the error carries a new BufWriter around the writer
BufWriterRewrap(r) == IF r.tag = "Err" THEN Err(StdBufWriterNew(r.adp.inner), r.cause) ELSE r

BufWriterTryIntoInnerRewrap(self) == BufWriterRewrap(StdBufWriterIntoInner(self))

BufWriterTryIntoInner(self) == StdBufWriterIntoInner(self)

\* impl WriteAdapter<W> for json::Serializer<W>
SerializerWrap(writer) == JsonSerializerNew(writer)

\* faulty variant: into_inner ends the output with one more byte
SerializerIntoInnerTrailing(self) == Ok([self.inner EXCEPT !.data = Append(@, 0)])

SerializerIntoInner(self) == Ok(JsonSerializerIntoInner(self))

----------------------------------------------------------------------------
(* src/src/lib.rs: the traits.  A required method is the method of the       *)
(* implementing type; try_into_inner is the default body unless overridden.  *)

\* the implementing types
ReadKinds == {"BufReader"}

WriteKinds == {"BufWriter", "Serializer"}

\* ReadAdapter::wrap
ReadAdapterWrap(kind, reader) == BufReaderWrap(reader)

\* ReadAdapter::into_inner
ReadAdapterIntoInner(self) == BufReaderIntoInner(self)

\* faulty variant: the default body reports a failure
ReadAdapterTryIntoInnerErr(self) == Err(self, "SourceErr")

\* ReadAdapter::try_into_inner, the default body: Ok(self.into_inner())
ReadAdapterTryIntoInner(self) == OkOf(ReadAdapterIntoInner(self))

\* WriteAdapter::wrap
WriteAdapterWrap(kind, writer) ==
  IF kind = "BufWriter" THEN BufWriterWrap(writer) ELSE SerializerWrap(writer)

\* WriteAdapter::into_inner
WriteAdapterIntoInner(self) ==
  IF self.tag = "BufWriter" THEN BufWriterIntoInner(self) ELSE SerializerIntoInner(self)

\* WriteAdapter::try_into_inner, the default body: Ok(self.into_inner())
WriteAdapterDefaultTryIntoInner(self) == OkOf(WriteAdapterIntoInner(self))

\* WriteAdapter::try_into_inner: io::BufWriter overrides the default body
WriteAdapterTryIntoInner(self) ==
  IF self.tag = "BufWriter"
  THEN BufWriterTryIntoInner(self)
  ELSE WriteAdapterDefaultTryIntoInner(self)

\* the two traits, by the adapter's type
IntoInnerOf(self) ==
  IF self.tag \in ReadKinds THEN ReadAdapterIntoInner(self) ELSE WriteAdapterIntoInner(self)

TryIntoInnerOf(self) ==
  IF self.tag \in ReadKinds
  THEN ReadAdapterTryIntoInner(self)
  ELSE WriteAdapterTryIntoInner(self)

\* dropping an adapter destroys its stream; a BufWriter flushes first
DropOf(self) ==
  IF self.tag = "BufWriter" THEN StdBufWriterDrop(self) ELSE self.inner

----------------------------------------------------------------------------
(* The caller *)

\* the streams a caller may bring: a source holding the bytes 1 .. n, or a
\* sink that already holds some bytes
Streams ==
  {Source(Bytes(1, n), fail) : n \in 0..MaxSrc, fail \in BOOLEAN}
  \cup {Sink(data, script, tail) :
          data \in {<<>>, <<0>>}, script \in Scripts, tail \in {"Ok", "Err"}}

Op(op, result) == [op |-> op, result |-> result]

Init ==
  /\ ext \in Streams
  /\ adapter = None
  /\ failed = None
  /\ destroyed = None
  /\ orig = ext
  /\ through = <<>>
  /\ ios = 0
  /\ attempts = 0
  /\ before = None
  /\ last = Op("init", Ok(None))

\* A::wrap(stream): the stream moves into the new adapter
Wrap ==
  /\ last.op = "init"
  /\ ext # None
  /\ \E kind \in (IF ext.tag = "Reader" THEN ReadKinds ELSE WriteKinds) :
       /\ adapter' = (IF ext.tag = "Reader"
                      THEN ReadAdapterWrap(kind, ext)
                      ELSE WriteAdapterWrap(kind, ext))
       /\ last' = Op("wrap", Ok(None))
  /\ ext' = None
  /\ UNCHANGED <<failed, destroyed, orig, through, ios, attempts, before>>

\* read through the BufReader into a buffer of n bytes
ReadDone(r) ==
  /\ adapter' = r.self
  /\ through' = through \o r.bytes
  /\ last' = Op("read", IF r.ok THEN Ok(None) ELSE Err(None, "SourceErr"))

Read ==
  /\ adapter # None
  /\ adapter.tag = "BufReader"
  /\ ios < MaxOps
  /\ \E n \in 1..MaxChunk :
       \E k \in StdBufReaderReadSizes(adapter, n) :
         \E r \in {StdBufReaderRead(adapter, n, k)} : ReadDone(r)
  /\ ios' = ios + 1
  /\ UNCHANGED <<ext, failed, destroyed, orig, attempts, before>>

\* write the next len bytes through the BufWriter; the bytes it takes are
\* written through it, the caller offers the others again
\* the next len bytes the caller has to write
NextBytes(len) == Bytes(Len(through) + 1, Len(through) + len)

WriteDone(op, bytes, r) ==
  /\ adapter' = r.self
  /\ through' = through \o TakeN(bytes, r.n)
  /\ last' = Op(op, IF r.ok THEN Ok(None) ELSE Err(None, "SinkErr"))

Write ==
  /\ adapter # None
  /\ adapter.tag = "BufWriter"
  /\ ios < MaxOps
  /\ \E len \in 1..MaxChunk :
       \E r \in {StdBufWriterWrite(adapter, NextBytes(len))} :
         WriteDone("write", NextBytes(len), r)
  /\ ios' = ios + 1
  /\ UNCHANGED <<ext, failed, destroyed, orig, attempts, before>>

\* flush the BufWriter
Flush ==
  /\ adapter # None
  /\ adapter.tag = "BufWriter"
  /\ ios < MaxOps
  /\ adapter' = StdBufWriterFlush(adapter)
  /\ last' = Op("flush", Ok(None))
  /\ ios' = ios + 1
  /\ UNCHANGED <<ext, failed, destroyed, orig, through, attempts, before>>

\* serialize a value whose encoding is the next len bytes
Encode ==
  /\ adapter # None
  /\ adapter.tag = "Serializer"
  /\ ios < MaxOps
  /\ \E len \in 1..MaxChunk :
       \E r \in {JsonSerialize(adapter, NextBytes(len))} :
         WriteDone("encode", NextBytes(len), r)
  /\ ios' = ios + 1
  /\ UNCHANGED <<ext, failed, destroyed, orig, attempts, before>>

\* adapter.into_inner(): the adapter is consumed; the stream goes to the
\* caller, or is destroyed by the panic
IntoInnerDone(r) ==
  /\ ext' = r.value
  /\ destroyed' = r.unwound
  /\ last' = Op("into_inner", r)

IntoInner ==
  /\ adapter # None
  /\ \E r \in {IntoInnerOf(adapter)} : IntoInnerDone(r)
  /\ adapter' = None
  /\ before' = adapter
  /\ UNCHANGED <<failed, orig, through, ios, attempts>>

\* adapter.try_into_inner(): the adapter is consumed; the stream goes to the
\* caller, or stays in the adapter inside the error
\* faulty variant: a failed try_into_inner also hands the stream to the caller
TryIntoInnerDoneLeaky(r) ==
  /\ ext' = (IF r.tag = "Err" THEN r.adp.inner ELSE r.value)
  /\ destroyed' = r.unwound
  /\ failed' = (IF r.tag = "Err" THEN [cause |-> r.cause, adp |-> r.adp] ELSE None)
  /\ attempts' = (IF r.tag = "Err" THEN attempts + 1 ELSE attempts)
  /\ last' = Op("try_into_inner", r)

TryIntoInnerDone(r) ==
  /\ ext' = r.value
  /\ destroyed' = r.unwound
  /\ failed' = (IF r.tag = "Err" THEN [cause |-> r.cause, adp |-> r.adp] ELSE None)
  /\ attempts' = (IF r.tag = "Err" THEN attempts + 1 ELSE attempts)
  /\ last' = Op("try_into_inner", r)

TryIntoInner ==
  /\ adapter # None
  /\ attempts < MaxAttempts
  /\ \E r \in {TryIntoInnerOf(adapter)} : TryIntoInnerDone(r)
  /\ adapter' = None
  /\ before' = adapter
  /\ UNCHANGED <<orig, through, ios>>

\* error.into_inner(): the caller takes the adapter back out of the error
Recover ==
  /\ failed # None
  /\ adapter' = failed.adp
  /\ failed' = None
  /\ last' = Op("recover", Ok(None))
  /\ UNCHANGED <<ext, destroyed, orig, through, ios, attempts, before>>

\* the adapter goes out of scope without being unwrapped
DropAdapter ==
  /\ adapter # None
  /\ destroyed' = DropOf(adapter)
  /\ adapter' = None
  /\ last' = Op("drop", Ok(None))
  /\ UNCHANGED <<ext, failed, orig, through, ios, attempts, before>>

\* the error goes out of scope, and the adapter in it
DropError ==
  /\ failed # None
  /\ destroyed' = DropOf(failed.adp)
  /\ failed' = None
  /\ last' = Op("drop", Ok(None))
  /\ UNCHANGED <<ext, adapter, orig, through, ios, attempts, before>>

Next ==
  \/ Wrap
  \/ Read
  \/ Write
  \/ Flush
  \/ Encode
  \/ IntoInner
  \/ TryIntoInner
  \/ Recover
  \/ DropAdapter
  \/ DropError

Spec == Init /\ [][Next]_vars

\* The caller of a writing adapter over a new sink that keeps retrying: it
\* never drops the adapter or the error, it never takes the panicking path,
\* and it does not leave an adapter or an error lying: it unwraps the one and
\* takes the adapter out of the other.
InitRetry == Init /\ ext.tag = "Writer" /\ ext.data = <<>>

NextRetry ==
  \/ Wrap
  \/ Write
  \/ Flush
  \/ Encode
  \/ TryIntoInner
  \/ Recover

RetrySpec ==
  InitRetry /\ [][NextRetry]_vars /\ WF_vars(TryIntoInner) /\ WF_vars(Recover)

----------------------------------------------------------------------------
(* Properties *)

Unwraps == {"into_inner", "try_into_inner"}

\* the last operation was op on an adapter of type kind
Did(op, kind) == last.op = op /\ before.tag = kind

\* what the sink has to hold once everything written through the adapter has
\* reached it
AllWritten == orig.data \o through

\* a sink that accepts every write: it takes all or part of every slice
AcceptsAll(s) ==
  /\ s.tail = "Ok"
  /\ \A i \in 1..Len(s.script) : s.script[i] \in {"Ok", "Part"}

\* C1: when into_inner of a BufWriter returns the sink, the sink holds what it
\* held at wrap time followed by all bytes written through the adapter, in
\* order, none lost or duplicated; over a sink that accepts every write
\* into_inner does return it.
C1_FlushBeforeRelease ==
  Did("into_inner", "BufWriter") =>
    /\ last.result.tag = "Ok" => (ext # None /\ ext.data = AllWritten)
    /\ AcceptsAll(orig) => last.result.tag = "Ok"

\* reached: more bytes than the buffer holds were written, some were still
\* buffered at unwrap time, and the sink accepted every write
C1_Witness ==
  /\ Did("into_inner", "BufWriter")
  /\ last.result.tag = "Ok"
  /\ AcceptsAll(orig)
  /\ Len(through) > Capacity
  /\ before.buf # <<>>
  /\ before.inner.data # orig.data

\* C2: try_into_inner of a BufWriter never panics; it fails exactly when the
\* flush fails, and then the error carries the cause of the failed flush and
\* the BufWriter, which still owns the sink and holds every byte the sink has
\* not taken: the sink is not released and no byte is dropped.
C2_TryIntoInnerError ==
  Did("try_into_inner", "BufWriter") =>
    /\ last.result.tag # "Panic"
    /\ last.result.tag = "Err" <=> ~FlushBuf(before).ok
    /\ last.result.tag = "Err" =>
         /\ failed # None
         /\ failed.cause = FlushBuf(before).cause
         /\ failed.cause \in {"SinkErr", "WriteZero"}
         /\ failed.adp.tag = "BufWriter"
         /\ failed.adp.inner.data \o failed.adp.buf = AllWritten
         /\ ext = None
         /\ adapter = None
         /\ destroyed = None

\* reached: a failed try_into_inner after the sink took part of the buffer
C2_Witness ==
  /\ Did("try_into_inner", "BufWriter")
  /\ last.result.tag = "Err"
  /\ failed.adp.buf # <<>>
  /\ Len(failed.adp.buf) < Len(before.buf)

\* C3: into_inner of a BufWriter panics exactly when try_into_inner on the
\* same adapter returns an error; the panic's message names the cause that
\* error carries; and when it returns the sink no written byte is missing.
C3_PanicIffFlushFails ==
  Did("into_inner", "BufWriter") =>
    /\ last.result.tag \in {"Ok", "Panic"}
    /\ last.result.tag = "Panic" <=> BufWriterTryIntoInner(before).tag = "Err"
    /\ last.result.tag = "Panic" =>
         /\ last.result.message = <<PanicText, BufWriterTryIntoInner(before).cause>>
         /\ ext = None
    /\ last.result.tag = "Ok" =>
         /\ ext = BufWriterTryIntoInner(before).value
         /\ ext.data = AllWritten

\* reached: into_inner panicked on a sink that returned Ok(0)
C3_Witness ==
  /\ Did("into_inner", "BufWriter")
  /\ last.result.tag = "Panic"
  /\ last.result.message = <<PanicText, "WriteZero">>

\* C4: for BufReader and Serializer, which keep the default try_into_inner,
\* try_into_inner never returns an error and yields Ok of exactly the stream
\* into_inner yields from the same adapter.
C4_DefaultTryIntoInner ==
  (last.op = "try_into_inner" /\ before.tag \in {"BufReader", "Serializer"}) =>
    /\ last.result.tag = "Ok"
    /\ IntoInnerOf(before).tag = "Ok"
    /\ ext = IntoInnerOf(before).value
    /\ failed = None
    /\ destroyed = None

\* reached: try_into_inner on a BufReader that had read ahead
C4_Witness ==
  /\ Did("try_into_inner", "BufReader")
  /\ before.buf # <<>>
  /\ ext # None

\* C5: a stream wrapped and unwrapped with no I/O through the adapter in
\* between comes back, without fail, as it was before wrapping.
C5_RoundTrip ==
  (last.op \in Unwraps /\ ios = 0) =>
    /\ last.result.tag = "Ok"
    /\ ext = orig

\* reached: the round trip of a BufWriter over a sink whose every write fails
C5_Witness ==
  /\ Did("try_into_inner", "BufWriter")
  /\ ios = 0
  /\ orig.script = <<>>
  /\ orig.tail = "Err"
  /\ ext = orig

\* the number of places that hold the stream, the destroyed stream counted
Holders ==
  (IF ext # None THEN 1 ELSE 0) + (IF adapter # None THEN 1 ELSE 0)
  + (IF failed # None THEN 1 ELSE 0) + (IF destroyed # None THEN 1 ELSE 0)

\* C6: the stream is always in exactly one place: with the caller, in one
\* adapter, in the adapter inside an error, or destroyed.  wrap moves it into
\* the adapter, a successful unwrap moves it to the caller and leaves no
\* adapter, a failed try_into_inner leaves it in the error, and a drop or a
\* panic destroys it.
C6_SingleOwner ==
  /\ Holders = 1
  /\ last.op = "init" => ext # None
  /\ last.op \in {"wrap", "read", "write", "flush", "encode", "recover"} => adapter # None
  /\ (last.op \in Unwraps /\ last.result.tag = "Ok") => ext # None
  /\ (last.op \in Unwraps /\ last.result.tag = "Err") =>
       (failed # None /\ failed.adp.inner.tag = orig.tag)
  /\ (last.op \in Unwraps /\ last.result.tag = "Panic") => destroyed # None
  /\ last.op = "drop" => destroyed # None

\* reached: a failed try_into_inner, the stream owned by the adapter in the error
C6_Witness ==
  /\ last.op = "try_into_inner"
  /\ last.result.tag = "Err"
  /\ failed # None
  /\ Holders = 1

\* C7: wrap always yields an adapter that owns the stream exactly as the
\* caller passed it (no call was made on it) and that has an empty buffer.
C7_WrapNoFailure ==
  last.op = "wrap" =>
    /\ last.result.tag = "Ok"
    /\ adapter # None
    /\ ext = None
    /\ adapter.inner = orig
    /\ adapter.inner.ops = 0
    /\ adapter.tag \in {"BufReader", "BufWriter"} => adapter.buf = <<>>

\* reached: a BufWriter wrapped around a sink whose every write fails
C7_Witness ==
  /\ last.op = "wrap"
  /\ adapter.tag = "BufWriter"
  /\ orig.script = <<>>
  /\ orig.tail = "Err"

\* C8: into_inner of a BufReader or a Serializer always returns the stream,
\* exactly as the adapter held it (no call is made on it); for the Serializer
\* the sink holds what it held at wrap time and the bytes the encoder emitted.
C8_UnwrapWithoutIO ==
  (last.op = "into_inner" /\ before.tag \in {"BufReader", "Serializer"}) =>
    /\ last.result.tag = "Ok"
    /\ ext = before.inner
    /\ ext.ops = before.inner.ops
    /\ before.tag = "Serializer" => ext.data = AllWritten

\* reached: into_inner of a Serializer after an encode that the sink cut short
C8_Witness ==
  /\ Did("into_inner", "Serializer")
  /\ through # <<>>
  /\ ios >= 2
  /\ ext.ops > ios

\* the bytes written through a BufWriter are in the sink or in the buffer
Pending(w) == w.tag = "BufWriter" => w.inner.data \o w.buf = AllWritten

\* C9, in every state: a BufWriter carried by an error, or taken back out of
\* it, holds exactly the written bytes the sink has not taken; and a
\* try_into_inner that succeeds after failed attempts leaves the sink with
\* every written byte, once and in order.
C9_RetrySafe ==
  /\ failed # None => Pending(failed.adp)
  /\ (adapter # None /\ attempts > 0) => Pending(adapter)
  /\ (Did("try_into_inner", "BufWriter") /\ attempts > 0 /\ last.result.tag = "Ok") =>
       (ext # None /\ ext.data = AllWritten)

\* a failed attempt on a sink that accepts writes once its script is used up
C9_Failed == failed # None /\ failed.adp.tag = "BufWriter" /\ failed.adp.inner.tail = "Ok"

\* the caller has the sink, with every written byte
C9_Returned ==
  /\ ext # None
  /\ Did("try_into_inner", "BufWriter")
  /\ ext.data = AllWritten

\* C9: retrying after a failed try_into_inner loses and duplicates nothing,
\* and when the sink comes to accept writes the retries end with the sink
\* returned.
C9_RetryAfterFailure == []C9_RetrySafe /\ (C9_Failed ~> C9_Returned)

\* reached: a try_into_inner that succeeded after two failed attempts, the
\* first of which the sink cut short
C9_Witness ==
  /\ Did("try_into_inner", "BufWriter")
  /\ last.result.tag = "Ok"
  /\ attempts = 2
  /\ before.buf # <<>>
  /\ Len(through) > Len(before.buf)

\* C10: while the BufReader lives, the bytes delivered, the bytes in its
\* buffer and the bytes left in the source make up the source's content; once
\* unwrapped, the bytes delivered and the bytes left in the returned source
\* make up the content exactly when the buffer was empty, and otherwise
\* exactly the buffered bytes are missing.
C10_ReadAhead ==
  /\ (adapter # None /\ adapter.tag = "BufReader") =>
       through \o adapter.buf \o adapter.inner.rest = orig.rest
  /\ (last.op \in Unwraps /\ before.tag = "BufReader") =>
       /\ ext # None
       /\ through \o before.buf \o ext.rest = orig.rest
       /\ through \o ext.rest = orig.rest <=> before.buf = <<>>

\* reached: a BufReader unwrapped with bytes delivered, bytes buffered and
\* bytes left in the source
C10_Witness ==
  /\ Did("into_inner", "BufReader")
  /\ through # <<>>
  /\ before.buf # <<>>
  /\ ext.rest # <<>>

====
